---- MODULE Spec2Model ----
(***************************************************************************)
(* Model of the concurrent peer-discovery crawler of network_map.py:       *)
(* main's layer loop, the explore_node tasks of the outer thread pool, the *)
(* explore_peer tasks of each node's inner thread pool, and the P2PApi     *)
(* client (_request, get_peers, get_version) they call. The two executors  *)
(* have a specification of their own, in which more tasks are submitted    *)
(* than a pool has workers.                                                *)
(*                                                                         *)
(* Threads interleave between the membership test of a task and its add    *)
(* to checked_addresses, which are separate operations on a Python set,    *)
(* and between its requests and its write to updates. The add and the      *)
(* requests that follow it are one step: what they change besides          *)
(* checked_addresses (peers_to_explore) is read by main only, after the    *)
(* layer has been joined.                                                  *)
(*                                                                         *)
(* The environment: a network gives the peer list each node knows; every   *)
(* request can fail in transport; host A resolves and is located, host B   *)
(* resolves and is not located, host C does not resolve.                   *)
(***************************************************************************)
EXTENDS Integers, Sequences, FiniteSets, TLC

VARIABLES
    addresses,          \* main: the bootstrap addresses (get_nodes_list())
    updates,            \* main: dict address -> record | None
    peers_to_explore,   \* main: set of addresses (the frontier)
    checked_addresses,  \* main: set of addresses
    new_peers,          \* main: the snapshot of the frontier of this layer
    pc,                 \* main: position in main()
    layer,              \* number of the layer being run (0 = bootstrap layer)
    node,               \* explore_node tasks of the layer, by address
    queries,            \* history: requests issued to each address (saturating)
    queriedIn,          \* history: layers in which each address was queried
    discovered,         \* history: addresses ever added to peers_to_explore
    network,            \* environment: the peer list each node reports
    rpc,                \* a P2PApi call, in the specification of the client
    pool                \* task counts, in the specification of the executors

vars == <<addresses, updates, peers_to_explore, checked_addresses, new_peers,
          pc, layer, node, queries, queriedIn, discovered, network, rpc,
          pool>>

crawlVars == <<addresses, updates, peers_to_explore, checked_addresses,
               new_peers, pc, layer, node, queries, queriedIn, discovered,
               network>>

-----------------------------------------------------------------------------
(* Bounds of the model *)

MaxPeers == 2        \* longest peer list a node reports
MaxEdges == 2        \* most entries in the peer lists of a network
MaxLayer == 5        \* cap on the layer counter
QueryCap == 2        \* the history counter queries saturates here
MaxNodeTasks == 21   \* most explore_node tasks submitted to a pool
MaxPeerTasks == 11   \* most explore_peer tasks submitted to a pool

Addr == {"A", "B", "C"}

(* Program constants *)
MaxNodeWorkers == 20
MaxPeerWorkers == 10

-----------------------------------------------------------------------------
(* Values *)

\* Python's None as stored by updates[address] = None
None == [unreachable |-> TRUE]

\* Python's None as a field of a record, and the fallbacks of the code
NoneField == "None"
UnknownVersion == "Unknown"
UnknownCountry == "??"

\* the exception get_version raises on a non-container "application"
TypeError == "<TypeError>"

VersionTop == "3.8.4"
VersionNested == "v3.8.2"

RECURSIVE SeqsUpTo(_)
SeqsUpTo(n) ==
    IF n = 0 THEN {<<>>}
    ELSE LET S == SeqsUpTo(n - 1)
         IN  S \cup {Append(s, a) :
                         s \in {t \in S : Len(t) = n - 1}, a \in Addr}

PeerLists == SeqsUpTo(MaxPeers)

Range(s) == {s[i] : i \in 1..Len(s)}

\* JSON bodies are functions from keys to values; {} is the empty function
EmptyDict == <<>>

JsonNull == [t |-> "null"]
JsonObject(d) == [t |-> "obj", v |-> d]

RECURSIVE SumLen(_, _)
SumLen(f, S) ==
    IF S = {} THEN 0
    ELSE LET a == CHOOSE x \in S : TRUE
         IN  Len(f[a]) + SumLen(f, S \ {a})

\* the networks crawled: the peer list each node knows
Networks == {n \in [Addr -> PeerLists] : SumLen(n, Addr) <= MaxEdges}

\* the body a node that knows the peers l answers getPeers with
PeersBody(l) == [peers |-> l]

\* bodies a node can answer getInfo with
ApplicationValues ==
    {JsonNull, JsonObject(EmptyDict), JsonObject([version |-> VersionNested])}

InfoBodies ==
    {EmptyDict, [version |-> VersionTop]}
    \cup {[application |-> ap] : ap \in ApplicationValues}
    \cup {[version |-> VersionTop, application |-> ap] :
             ap \in ApplicationValues}

\* bodies the nodes of the crawled networks answer getInfo with
NodeInfoBodies == {[version |-> VersionTop], [application |-> JsonNull]}

\* outcome of the HTTP exchange of one _request call
Transports == {"ok", "network_error", "malformed_json"}

-----------------------------------------------------------------------------
(* P2PApi *)

\* P2PApi._request: {} on a transport error, a non-success status or a body
\* that is not JSON; the parsed body otherwise
Request(transport, body) ==
    IF transport = "ok" THEN body ELSE EmptyDict

\* what _request("getPeers") can return from a node that knows the peers l
PeersResponses(l) == {Request(t, PeersBody(l)) : t \in Transports}

\* what _request("getInfo") can return from a node of the crawled networks
InfoResponses == {Request(t, b) : t \in Transports, b \in NodeInfoBodies}

\* the request ended in an except clause of _request: its response is {}
Failed(response) == response = EmptyDict

\* P2PApi.get_peers
GetPeers(response) ==
    IF "peers" \in DOMAIN response THEN response.peers ELSE <<>>

\* P2PApi.get_version; TypeError when "version" in response["application"]
\* is evaluated on a value that is not a container
GetVersion(response) ==
    IF "version" \in DOMAIN response THEN response.version
    ELSE IF "application" \in DOMAIN response
         THEN IF response.application.t = "obj"
              THEN IF "version" \in DOMAIN response.application.v
                   THEN response.application.v.version
                   ELSE UnknownVersion
              ELSE TypeError
         ELSE UnknownVersion

-----------------------------------------------------------------------------
(* Address resolution and geo lookup *)

\* get_ip_by_domain: the IP, or None when the host does not resolve (host C)
IpOutcomes(address) ==
    IF address = "C" THEN {NoneField} ELSE {"203.0.113.7"}

\* get_geo_info: the looked-up location, or the fallback on any failure
GeoFallback == [country_code |-> UnknownCountry, latitude |-> NoneField,
                longitude |-> NoneField]
GeoFound == [country_code |-> "US", latitude |-> "40.7", longitude |-> "-74.0"]
\* (only host A is located)
GeoOutcomes(address) ==
    IF address = "A" THEN {GeoFound} ELSE {GeoFallback}

\* line 164: geo_info = get_geo_info(ip) if ip else {...}
GeoInfo(ip, geo) == IF ip # NoneField THEN geo ELSE GeoFallback

\* variant of PeerRecord: an address that does not resolve is stored as None
PeerRecordResolvedOnly(address, ip, geo_info, version, peers) ==
    IF ip = NoneField
    THEN None
    ELSE [announced_address |-> address,
          real_ip |-> ip,
          country_code |-> geo_info.country_code,
          latitude |-> geo_info.latitude,
          longitude |-> geo_info.longitude,
          version |-> version,
          peers |-> peers]

\* lines 165-173: the record explore_peer stores
PeerRecord(address, ip, geo_info, version, peers) ==
    [announced_address |-> address,
     real_ip |-> ip,
     country_code |-> geo_info.country_code,
     latitude |-> geo_info.latitude,
     longitude |-> geo_info.longitude,
     version |-> version,
     peers |-> peers]

\* dict assignment d[k] = v
DictSet(d, k, v) ==
    [x \in (DOMAIN d) \cup {k} |-> IF x = k THEN v ELSE d[x]]

-----------------------------------------------------------------------------
(* Tasks *)

\* an explore_peer call: its position, its locals peers and version, and
\* whether one of its two requests failed in transport
IdlePeer == [pc |-> "queued", peers |-> <<>>, version |-> "", failed |-> FALSE]
DonePeer == [pc |-> "done", peers |-> <<>>, version |-> "", failed |-> FALSE]

\* an explore_node call: its position, its local peers, and the explore_peer
\* calls it makes: sub[0] is the nested call of line 187 on its own address,
\* sub[i] the call the inner pool makes for peers[i]
NewNode == [pc |-> "queued", peers |-> <<>>, sub |-> <<>>]
DoneNode == [pc |-> "done", peers |-> <<>>, sub |-> <<>>]

NoTasks == <<>>

\* the address explore_peer call i of node a is made with
PeerAddress(a, i) == IF i = 0 THEN a ELSE node[a].peers[i]

\* variant of NodeVisited: the test looks in updates, not in checked_addresses
NodeVisitedByUpdates(a) == a \in DOMAIN updates

\* line 179: if address in checked_addresses
NodeVisited(a) == a \in checked_addresses

\* variant of PeerVisited: the test of checked_addresses is missing
PeerVisitedUpdatesOnly(a) == a \in DOMAIN updates

\* line 151: if address in updates or address in checked_addresses
PeerVisited(a) == a \in DOMAIN updates \/ a \in checked_addresses

\* variant of IdleWorker: a thread is started for every task submitted
IdleWorkerAlways(running, max_workers) == TRUE

\* ThreadPoolExecutor(max_workers=n): a queued task starts when one of the n
\* workers is not running a task
IdleWorker(running, max_workers) == running < max_workers

\* tasks an executor is running
RunningNodes ==
    Cardinality({a \in DOMAIN node : node[a].pc \notin {"queued", "done"}})

RunningPeers(a) ==
    Cardinality({i \in (DOMAIN node[a].sub) \ {0} :
                    node[a].sub[i].pc \notin {"queued", "done"}})

\* variant of MarkChecked: the address is not added
MarkCheckedNot(address) == UNCHANGED checked_addresses

\* lines 153 and 181: checked_addresses.add(address)
MarkChecked(address) ==
    checked_addresses' = checked_addresses \cup {address}

AllNodesDone == \A a \in DOMAIN node : node[a].pc = "done"

Bump(n) == IF n < QueryCap THEN n + 1 ELSE n

\* history of a request to address a
LogQuery(a) ==
    /\ queries' = [queries EXCEPT ![a] = Bump(@)]
    /\ queriedIn' = [queriedIn EXCEPT ![a] = @ \cup {layer}]

-----------------------------------------------------------------------------
(* main *)

\* the bootstrap sets: some address to start from, some left to discover
SeedSets == {S \in SUBSET Addr : S # {} /\ S # Addr}

IdleRpc == [pc |-> "idle", endpoint |-> "", transport |-> "ok",
            body |-> EmptyDict, response |-> EmptyDict, result |-> ""]

\* the tasks of an executor: waiting in its queue, run by a worker, returned
Tasks(n) == [queued |-> n, running |-> 0, done |-> 0]

IdlePool == [nodes |-> Tasks(0), peers |-> Tasks(0)]

Init ==
    /\ addresses \in SeedSets
    /\ network \in Networks
    /\ updates = <<>>
    /\ peers_to_explore = {}
    /\ checked_addresses = {}
    /\ new_peers = {}
    /\ pc = "seeds"
    /\ layer = 0
    /\ node = NoTasks
    /\ queries = [a \in Addr |-> 0]
    /\ queriedIn = [a \in Addr |-> {}]
    /\ discovered = {}
    /\ rpc = IdleRpc
    /\ pool = IdlePool

\* lines 306-307: the bootstrap layer is submitted to a pool of 20 workers
MainSeeds ==
    /\ pc = "seeds"
    /\ node' = [a \in addresses |-> NewNode]
    /\ pc' = "join"
    /\ UNCHANGED <<addresses, updates, peers_to_explore, checked_addresses,
                   new_peers, layer, queries, queriedIn, discovered,
                   network, rpc, pool>>

\* variant of MainJoin: main leaves the with block without waiting
MainJoinNoWait ==
    /\ pc = "join"
    /\ pc' = "test"
    /\ UNCHANGED <<addresses, updates, peers_to_explore, checked_addresses,
                   new_peers, layer, node, queries, queriedIn, discovered,
                   network, rpc, pool>>

\* leaving the with block: executor.shutdown(wait=True) returns when every
\* task of the pool has returned
MainJoin ==
    /\ pc = "join"
    /\ AllNodesDone
    /\ pc' = "test"
    /\ UNCHANGED <<addresses, updates, peers_to_explore, checked_addresses,
                   new_peers, layer, node, queries, queriedIn, discovered,
                   network, rpc, pool>>

\* line 308: while peers_to_explore
MainTest ==
    /\ pc = "test"
    /\ \/ /\ peers_to_explore # {}
          /\ layer < MaxLayer
          /\ pc' = "copy"
       \/ /\ peers_to_explore = {}
          /\ pc' = "chart"
    /\ UNCHANGED <<addresses, updates, peers_to_explore, checked_addresses,
                   new_peers, layer, node, queries, queriedIn, discovered,
                   network, rpc, pool>>

\* variant of MainCopy: the snapshot is taken after the frontier was cleared
MainCopyCleared ==
    /\ pc = "copy"
    /\ new_peers' = {}
    /\ pc' = "clear"
    /\ UNCHANGED <<addresses, updates, peers_to_explore, checked_addresses,
                   layer, node, queries, queriedIn, discovered, network, rpc,
                   pool>>

\* line 309: new_peers = peers_to_explore.copy()
MainCopy ==
    /\ pc = "copy"
    /\ new_peers' = peers_to_explore
    /\ pc' = "clear"
    /\ UNCHANGED <<addresses, updates, peers_to_explore, checked_addresses,
                   layer, node, queries, queriedIn, discovered, network, rpc,
                   pool>>

\* variant of MainClear: the frontier is not cleared
MainClearKeeps ==
    /\ pc = "clear"
    /\ pc' = "dispatch"
    /\ UNCHANGED <<addresses, updates, peers_to_explore, checked_addresses,
                   new_peers, layer, node, queries, queriedIn, discovered,
                   network, rpc, pool>>

\* line 310: peers_to_explore.clear()
MainClear ==
    /\ pc = "clear"
    /\ peers_to_explore' = {}
    /\ pc' = "dispatch"
    /\ UNCHANGED <<addresses, updates, checked_addresses, new_peers,
                   layer, node, queries, queriedIn, discovered, network, rpc,
                   pool>>

\* variant of MainDispatch: a task is submitted for every known host
MainDispatchAll ==
    /\ pc = "dispatch"
    /\ node' = [a \in Addr |-> NewNode]
    /\ layer' = layer + 1
    /\ pc' = "join"
    /\ UNCHANGED <<addresses, updates, peers_to_explore, checked_addresses,
                   new_peers, queries, queriedIn, discovered, network, rpc,
                   pool>>

\* lines 311-312: the layer is submitted to a pool of 20 workers
MainDispatch ==
    /\ pc = "dispatch"
    /\ node' = [a \in new_peers |-> NewNode]
    /\ layer' = layer + 1
    /\ pc' = "join"
    /\ UNCHANGED <<addresses, updates, peers_to_explore, checked_addresses,
                   new_peers, queries, queriedIn, discovered, network, rpc,
                   pool>>

\* line 313: build_network_chart(updates)
MainChart ==
    /\ pc = "chart"
    /\ pc' = "done"
    /\ UNCHANGED <<addresses, updates, peers_to_explore, checked_addresses,
                   new_peers, layer, node, queries, queriedIn, discovered,
                   network, rpc, pool>>

-----------------------------------------------------------------------------
(* explore_node *)

SetNode(a, n) == node' = [node EXCEPT ![a] = n]

\* a worker of the outer pool takes the task; lines 179-180
NodeCheck(a) ==
    /\ pc = "join"
    /\ a \in DOMAIN node
    /\ node[a].pc = "queued"
    /\ IdleWorker(RunningNodes, MaxNodeWorkers)
    /\ IF NodeVisited(a)
       THEN SetNode(a, DoneNode)
       ELSE SetNode(a, [node[a] EXCEPT !.pc = "request"])
    /\ UNCHANGED <<addresses, updates, peers_to_explore, checked_addresses,
                   new_peers, pc, layer, queries, queriedIn, discovered,
                   network, rpc, pool>>

\* line 181: checked_addresses.add(address), and lines 183-186 and 188-190:
\* get_peers, get_version, the frontier update; an exception leaves through
\* the except clause and returns. Then line 187 is reached: the nested
\* explore_peer call sub[0]. (No other thread reads peers_to_explore while
\* the layer runs, so the add and the update are one step.)
NodeRequest(a) ==
    /\ a \in DOMAIN node
    /\ node[a].pc = "request"
    /\ MarkChecked(a)
    /\ \E rp \in PeersResponses(network[a]), ri \in InfoResponses :
          LET peers == GetPeers(rp)
              version == GetVersion(ri)
          IN  IF version = TypeError
              THEN /\ SetNode(a, DoneNode)
                   /\ UNCHANGED <<peers_to_explore, discovered>>
              ELSE /\ peers_to_explore' = peers_to_explore \cup Range(peers)
                   /\ discovered' = discovered \cup Range(peers)
                   /\ SetNode(a, [pc |-> "nested", peers |-> peers,
                                  sub |-> [i \in 0..Len(peers) |-> IdlePeer]])
    /\ LogQuery(a)
    /\ UNCHANGED <<addresses, updates, new_peers, pc, layer, network, rpc,
                   pool>>

-----------------------------------------------------------------------------
(* explore_peer *)

\* call i of node a is at position p
PeerAt(a, i, p) ==
    /\ a \in DOMAIN node
    /\ i \in DOMAIN node[a].sub
    /\ node[a].sub[i].pc = p

\* call i of node a moves on with the locals of task t
SetPeer(a, i, t) == node' = [node EXCEPT ![a].sub[i] = t]

\* call i of node a returns. After the nested call, lines 191-192 submit the
\* peers to a pool of 10 workers; explore_node leaves the with block and
\* returns when the last of them has returned.
Return(a, i) ==
    IF \A j \in (DOMAIN node[a].sub) \ {0, i} : node[a].sub[j].pc = "done"
    THEN SetNode(a, DoneNode)
    ELSE node' = [node EXCEPT ![a].sub[i] = DonePeer, ![a].pc = "map"]

\* lines 151-152; the call starts when explore_node reaches line 187 (i = 0)
\* or when a worker of the inner pool takes it (i > 0)
PeerCheck(a, i) ==
    /\ PeerAt(a, i, "queued")
    /\ \/ i = 0 /\ node[a].pc = "nested"
       \/ /\ i > 0
          /\ node[a].pc = "map"
          /\ IdleWorker(RunningPeers(a), MaxPeerWorkers)
    /\ IF PeerVisited(PeerAddress(a, i))
       THEN Return(a, i)
       ELSE SetPeer(a, i, [node[a].sub[i] EXCEPT !.pc = "request"])
    /\ UNCHANGED <<addresses, updates, peers_to_explore, checked_addresses,
                   new_peers, pc, layer, queries, queriedIn, discovered,
                   network, rpc, pool>>

\* line 153: checked_addresses.add(address), and lines 155-158: get_peers,
\* get_version, the frontier update; an exception goes to the except clause
\* of line 159
PeerRequest(a, i) ==
    /\ PeerAt(a, i, "request")
    /\ MarkChecked(PeerAddress(a, i))
    /\ \E rp \in PeersResponses(network[PeerAddress(a, i)]),
          ri \in InfoResponses :
          LET peers == GetPeers(rp)
              version == GetVersion(ri)
          IN  IF version = TypeError
              THEN /\ SetPeer(a, i, [pc |-> "write", peers |-> <<>>,
                                     version |-> TypeError, failed |-> FALSE])
                   /\ UNCHANGED <<peers_to_explore, discovered>>
              ELSE /\ peers_to_explore' = peers_to_explore \cup Range(peers)
                   /\ discovered' = discovered \cup Range(peers)
                   /\ SetPeer(a, i, [pc |-> "write", peers |-> peers,
                                     version |-> version,
                                     failed |-> Failed(rp) \/ Failed(ri)])
    /\ LogQuery(PeerAddress(a, i))
    /\ UNCHANGED <<addresses, updates, new_peers, pc, layer, network, rpc,
                   pool>>

\* lines 161-162 after an exception: updates[address] = None;
\* lines 163-173 otherwise: the lookups and updates[address] = {...}
PeerWrite(a, i) ==
    /\ PeerAt(a, i, "write")
    /\ LET address == PeerAddress(a, i)
           t == node[a].sub[i]
       IN  IF t.version = TypeError
           THEN updates' = DictSet(updates, address, None)
           ELSE \E ip \in IpOutcomes(address), geo \in GeoOutcomes(address) :
                   updates' = DictSet(updates, address,
                                  PeerRecord(address, ip, GeoInfo(ip, geo),
                                             t.version, t.peers))
    /\ Return(a, i)
    /\ UNCHANGED <<addresses, peers_to_explore, checked_addresses, new_peers,
                   pc, layer, queries, queriedIn, discovered, network, rpc,
                   pool>>

-----------------------------------------------------------------------------
(* Specification of the crawl *)

MainStep ==
    \/ MainSeeds
    \/ MainJoin
    \/ MainTest
    \/ MainCopy
    \/ MainClear
    \/ MainDispatch
    \/ MainChart

NodeStep ==
    \E a \in Addr :
        \/ NodeCheck(a)
        \/ NodeRequest(a)

PeerStep ==
    \E a \in Addr, i \in 0..MaxPeers :
        \/ PeerCheck(a, i)
        \/ PeerRequest(a, i)
        \/ PeerWrite(a, i)

Next == MainStep \/ NodeStep \/ PeerStep

Spec == Init /\ [][Next]_vars

TypeOK ==
    /\ addresses \in SeedSets
    /\ DOMAIN updates \subseteq Addr
    /\ peers_to_explore \subseteq Addr
    /\ checked_addresses \subseteq Addr
    /\ new_peers \subseteq Addr
    /\ layer \in 0..MaxLayer
    /\ DOMAIN node \subseteq Addr
    /\ discovered \subseteq Addr

-----------------------------------------------------------------------------
(* Specification of the P2PApi client: one call of get_peers or get_version *)

\* bodies a node can answer getPeers with
ClientPeersBodies == {EmptyDict} \cup {[peers |-> l] : l \in PeerLists}

ClientCalls ==
    {[pc |-> "call", endpoint |-> "getPeers", transport |-> t, body |-> b,
      response |-> EmptyDict, result |-> ""] :
        t \in Transports, b \in ClientPeersBodies}
    \cup
    {[pc |-> "call", endpoint |-> "getInfo", transport |-> t, body |-> b,
      response |-> EmptyDict, result |-> ""] :
        t \in Transports, b \in InfoBodies}

InitClient ==
    /\ addresses = {"A"}
    /\ network = [a \in Addr |-> <<>>]
    /\ updates = <<>>
    /\ peers_to_explore = {}
    /\ checked_addresses = {}
    /\ new_peers = {}
    /\ pc = "seeds"
    /\ layer = 0
    /\ node = NoTasks
    /\ queries = [a \in Addr |-> 0]
    /\ queriedIn = [a \in Addr |-> {}]
    /\ discovered = {}
    /\ rpc \in ClientCalls
    /\ pool = IdlePool

\* P2PApi._request
ClientRequest ==
    /\ rpc.pc = "call"
    /\ rpc' = [rpc EXCEPT !.pc = "parse",
                          !.response = Request(rpc.transport, rpc.body)]
    /\ UNCHANGED <<crawlVars, pool>>

\* P2PApi.get_peers on the response
ClientGetPeers ==
    /\ rpc.pc = "parse"
    /\ rpc.endpoint = "getPeers"
    /\ rpc' = [rpc EXCEPT !.pc = "returned", !.result = GetPeers(rpc.response)]
    /\ UNCHANGED <<crawlVars, pool>>

\* P2PApi.get_version on the response
ClientGetVersion ==
    /\ rpc.pc = "parse"
    /\ rpc.endpoint = "getInfo"
    /\ LET version == GetVersion(rpc.response)
       IN  rpc' = [rpc EXCEPT !.pc = IF version = TypeError
                                     THEN "raised" ELSE "returned",
                              !.result = version]
    /\ UNCHANGED <<crawlVars, pool>>

NextClient == ClientRequest \/ ClientGetPeers \/ ClientGetVersion

SpecClient == InitClient /\ [][NextClient]_vars

-----------------------------------------------------------------------------
(* Specification of the executors: the pool of 20 workers main submits a    *)
(* layer of explore_node tasks to, and the pool of 10 workers one of these  *)
(* tasks submits the explore_peer calls for its peers to. The tasks are     *)
(* counted, not told apart.                                                 *)

\* numbers of tasks submitted to a pool: one, or more than it has workers
NodeTaskCounts == {1, MaxNodeTasks}
PeerTaskCounts == {1, MaxPeerTasks}

InitPool ==
    /\ addresses = {"A"}
    /\ network = [a \in Addr |-> <<>>]
    /\ updates = <<>>
    /\ peers_to_explore = {}
    /\ checked_addresses = {}
    /\ new_peers = {}
    /\ pc = "seeds"
    /\ layer = 0
    /\ node = NoTasks
    /\ queries = [a \in Addr |-> 0]
    /\ queriedIn = [a \in Addr |-> {}]
    /\ discovered = {}
    /\ rpc = IdleRpc
    /\ \E n \in NodeTaskCounts, m \in PeerTaskCounts :
          pool = [nodes |-> Tasks(n), peers |-> Tasks(m)]

\* a worker takes the next task of the queue
Start(t) == [t EXCEPT !.queued = @ - 1, !.running = @ + 1]

\* the task a worker runs returns
Finish(t) == [t EXCEPT !.running = @ - 1, !.done = @ + 1]

\* lines 306-307 and 311-312: a worker of the outer pool starts explore_node
NodeStart ==
    /\ pool.nodes.queued > 0
    /\ IdleWorker(pool.nodes.running, MaxNodeWorkers)
    /\ pool' = [pool EXCEPT !.nodes = Start(@)]
    /\ UNCHANGED <<crawlVars, rpc>>

\* an explore_node task returns
NodeFinish ==
    /\ pool.nodes.running > 0
    /\ pool' = [pool EXCEPT !.nodes = Finish(@)]
    /\ UNCHANGED <<crawlVars, rpc>>

\* lines 191-192: a worker of the inner pool starts explore_peer
PeerStart ==
    /\ pool.peers.queued > 0
    /\ IdleWorker(pool.peers.running, MaxPeerWorkers)
    /\ pool' = [pool EXCEPT !.peers = Start(@)]
    /\ UNCHANGED <<crawlVars, rpc>>

\* an explore_peer task returns
PeerFinish ==
    /\ pool.peers.running > 0
    /\ pool' = [pool EXCEPT !.peers = Finish(@)]
    /\ UNCHANGED <<crawlVars, rpc>>

NextPool == NodeStart \/ NodeFinish \/ PeerStart \/ PeerFinish

SpecPool == InitPool /\ [][NextPool]_vars

-----------------------------------------------------------------------------
(* Specification of the crawl under fair scheduling: a thread that can take *)
(* a step eventually takes one.                                             *)

FairSpec == Spec /\ WF_vars(Next)

-----------------------------------------------------------------------------
(* Properties *)

Finished == pc = "done"

\* C1: over a whole run every address is queried at most once, whichever
\* tasks race for it.
AtMostOnceQuery == \A a \in Addr : queries[a] <= 1

\* C2: when main has finished crawling, every address that was queried has
\* an entry in updates.
RecordCompleteness ==
    pc \in {"chart", "done"} =>
        \A a \in Addr : queries[a] >= 1 => a \in DOMAIN updates

\* C3: an explore_peer call one of whose requests failed in transport stores
\* None for its address.
UnreachableHandling ==
    [][\A a \in Addr, i \in 0..MaxPeers :
          (PeerWrite(a, i) /\ node[a].sub[i].failed)
              => updates'[PeerAddress(a, i)] = None]_vars

\* C4: under fair scheduling the crawl finishes: main leaves the layer loop
\* and hands the record to build_network_chart.
Terminates == <>Finished

\* a crawl has finished that queried an address in a layer after the first
TerminatesWitness == Finished /\ \E a \in Addr : queriedIn[a] = {1}

EntryStability ==
    [][\A a \in DOMAIN updates :
          a \in DOMAIN updates' /\ updates'[a] = updates[a]]_vars

\* C7: an explore_peer call that explore_node makes on its own address (the
\* nested call, or the call for a peer list entry equal to the node's own
\* address) returns at its visited check: it issues no request and writes no
\* entry.
SelfLoopSafety ==
    \A a \in DOMAIN node : \A i \in DOMAIN node[a].sub :
        PeerAddress(a, i) = a => node[a].sub[i].pc \in {"queued", "done"}

\* a node that listed itself: the call for that entry has returned and the
\* node was queried once
SelfLoopWitness ==
    \E a \in DOMAIN node :
        /\ node[a].pc = "map"
        /\ \E i \in 1..Len(node[a].peers) :
              node[a].peers[i] = a /\ node[a].sub[i].pc = "done"
        /\ queries[a] = 1

\* the lookups of this address fail: it does not resolve, or its location is
\* not found
Degraded(address) ==
    \/ IpOutcomes(address) = {NoneField}
    \/ GeoOutcomes(address) = {GeoFallback}

DegradedWritten ==
    \A a \in Addr, i \in 0..MaxPeers :
        (/\ PeerWrite(a, i)
         /\ node[a].sub[i].version # TypeError
         /\ Degraded(PeerAddress(a, i)))
        => LET address == PeerAddress(a, i)
               r == updates'[address]
           IN  /\ r # None
               /\ r.version = node[a].sub[i].version
               /\ r.peers = node[a].sub[i].peers
               /\ r.country_code = UnknownCountry
               /\ r.latitude = NoneField
               /\ r.longitude = NoneField
               /\ IpOutcomes(address) = {NoneField} => r.real_ip = NoneField

DegradedTraversed ==
    \A a \in DOMAIN updates :
        (updates[a] # None /\ Degraded(a))
        => /\ Range(updates[a].peers) \subseteq discovered
           /\ Finished => Range(updates[a].peers) \subseteq checked_addresses

ExpectedVersion(response) ==
    IF "version" \in DOMAIN response THEN response.version
    ELSE IF /\ "application" \in DOMAIN response
            /\ response.application.t = "obj"
            /\ "version" \in DOMAIN response.application.v
         THEN response.application.v.version
         ELSE UnknownVersion

\* C9: get_version returns the top-level version, else the version nested
\* under "application", else "Unknown", and never fails.
VersionFallback ==
    (rpc.endpoint = "getInfo" /\ rpc.pc \in {"returned", "raised"})
        => /\ rpc.pc = "returned"
           /\ rpc.result = ExpectedVersion(rpc.response)

\* C10: an address queried during one layer is not queried in another layer.
CrossLayerDedup == \A a \in Addr : Cardinality(queriedIn[a]) <= 1

\* in a later layer, explore_node was called for an address queried in an
\* earlier layer and has returned
CrossLayerWitness ==
    /\ layer >= 1
    /\ \E a \in DOMAIN node :
          /\ node[a].pc = "done"
          /\ queriedIn[a] # {}
          /\ \A l \in queriedIn[a] : l < layer

\* C11: the frontier never contains an address that has an entry in updates:
\* only the reported peers without an entry are added to peers_to_explore.
FrontierFiltering == \A a \in peers_to_explore : a \notin DOMAIN updates

\* an explore_node task, or an explore_peer task it started, has not returned
InFlight == \E a \in DOMAIN node : node[a].pc # "done"

\* C12: when main tests the frontier, snapshots it, clears it, dispatches the
\* next layer or hands the record to build_network_chart, no explore_node or
\* explore_peer task is in flight.
LayerBarrier ==
    pc \in {"test", "copy", "clear", "dispatch", "chart", "done"} => ~InFlight

\* the record is about to be exported after a final layer whose tasks
\* queried an address
LayerBarrierWitness ==
    /\ pc = "chart"
    /\ layer >= 1
    /\ DOMAIN updates # {}
    /\ \E a \in DOMAIN node : queriedIn[a] = {layer}

\* C13: at most 20 explore_node tasks run at once, and at most 10 of the
\* explore_peer tasks an explore_node task submitted for its peers.
BoundedFanOut ==
    /\ pool.nodes.running <= MaxNodeWorkers
    /\ pool.peers.running <= MaxPeerWorkers

\* both pools run as many tasks as they have workers, and a task waits in
\* the queue of each
BoundedFanOutWitness ==
    /\ pool.nodes.running = MaxNodeWorkers
    /\ pool.nodes.queued > 0
    /\ pool.peers.running = MaxPeerWorkers
    /\ pool.peers.queued > 0

\* in this step the get_peers call of explore_node(b), or of an explore_peer
\* call b made, returns a list with the address a
ReportedNow(a, b) ==
    /\ b \in DOMAIN node
    /\ b \in DOMAIN node'
    /\ \/ /\ node[b].pc = "request"
          /\ node'[b].pc = "nested"
          /\ a \in Range(node'[b].peers)
       \/ \E i \in DOMAIN node[b].sub :
             /\ i \in DOMAIN node'[b].sub
             /\ node[b].sub[i].pc = "request"
             /\ node'[b].sub[i].pc = "write"
             /\ a \in Range(node'[b].sub[i].peers)

\* an address enters the frontier in the step in which a get_peers call
\* returns a list with it
CausalFrontier ==
    \A a \in (peers_to_explore' \ peers_to_explore)
                \cup (discovered' \ discovered) :
        \E b \in Addr : ReportedNow(a, b)

\* an address outside the bootstrap set is first queried after it entered
\* the frontier
CausalQuery ==
    \A a \in Addr :
        (queries[a] = 0 /\ queries'[a] > 0)
            => (a \in addresses \/ a \in discovered)

\* C14: an address outside the bootstrap set enters the frontier only when
\* the get_peers call of a query that lists it has returned, and no such
\* address is in the frontier, in its snapshot or queried before that.
CausalOrdering ==
    /\ [](peers_to_explore \cup new_peers \subseteq discovered)
    /\ [][CausalFrontier /\ CausalQuery]_vars

\* an address outside the bootstrap set was queried in the layer after the
\* one that reported it
CausalOrderingWitness ==
    \E a \in discovered \ addresses :
        /\ queriedIn[a] = {1}
        /\ a \in new_peers

\* an address leaves the frontier only by the clear of line 310, when the
\* snapshot holds it
DroppedInSnapshot ==
    \A a \in peers_to_explore \ peers_to_explore' :
        pc = "clear" /\ a \in new_peers

\* the dispatch submits an explore_node task for every address of the
\* snapshot
SnapshotDispatched ==
    (pc = "dispatch" /\ pc' = "join")
        => (DOMAIN node' = new_peers
            /\ \A a \in new_peers : node'[a] = NewNode)

\* between the copy and the clear no address was added to the frontier, and
\* main does not finish with addresses left in it
SnapshotComplete ==
    /\ pc = "clear" => new_peers = peers_to_explore
    /\ Finished => peers_to_explore = {}

\* C15: every address a worker adds to peers_to_explore is in the snapshot
\* new_peers of the next layer and is passed to explore_node there; the copy
\* and the clear drop none.
NoLostDiscoveries ==
    /\ []SnapshotComplete
    /\ [][DroppedInSnapshot /\ SnapshotDispatched]_vars

\* explore_node runs in layer 1 for an address outside the bootstrap set
\* that a worker of layer 0 added to the frontier
NoLostDiscoveriesWitness ==
    /\ pc = "join"
    /\ layer = 1
    /\ \E a \in DOMAIN node :
          /\ a \in discovered \ addresses
          /\ a \in new_peers
          /\ node[a].pc = "request"

\* C16: every address with an entry in updates is in checked_addresses, and
\* no address is ever removed from checked_addresses.
RegistryConsistency ==
    /\ [](DOMAIN updates \subseteq checked_addresses)
    /\ [][checked_addresses \subseteq checked_addresses']_vars

\* explore_peer has written entries, and an address is checked that has no
\* entry yet
RegistryConsistencyWitness ==
    /\ pc = "join"
    /\ DOMAIN updates # {}
    /\ checked_addresses \ DOMAIN updates # {}
    /\ \E a \in DOMAIN node : \E i \in DOMAIN node[a].sub :
          node[a].sub[i].pc = "write"

\* the nested explore_peer call of line 187 never passes its visited check
NestedCallReturns ==
    \A a \in DOMAIN node :
        0 \in DOMAIN node[a].sub => node[a].sub[0].pc \in {"queued", "done"}

\* the steps of explore_node(a) itself: its requests are one get_peers and
\* one get_version to a and write no entry; its nested call changes nothing
\* but the position of explore_node
NodeFrame ==
    \A a \in DOMAIN node :
        /\ (node[a].pc = "request" /\ node'[a].pc # "request")
               => /\ queries' = [queries EXCEPT ![a] = Bump(@)]
                  /\ updates' = updates
        /\ (node[a].pc = "nested" /\ node'[a].pc # "nested")
               => UNCHANGED <<updates, queries, queriedIn, checked_addresses,
                              peers_to_explore, discovered>>

\* an entry of updates is written by an explore_peer call of an inner pool
WrittenByPeerTask ==
    updates' # updates
        => \E a \in DOMAIN node : \E i \in (DOMAIN node[a].sub) \ {0} :
              /\ node[a].sub[i].pc = "write"
              /\ node'[a].pc = "done" \/ node'[a].sub[i].pc = "done"

====
